---- MODULE Spec2Model ----
(***************************************************************************)
(* LeetSeek: the serverless endpoints api/index.py and api/try.py.  Each   *)
(* fetches a LeetCode profile summary over GraphQL and stores it in the    *)
(* Firestore collection "leetcodeUsers", keyed by username.  index.py also *)
(* has the cron mode that refreshes every stored username.                 *)
(*                                                                         *)
(* Python values are tagged records: [t |-> "None"], [t |-> "str", v |-> s]*)
(* [t |-> "dict", v |-> f] (f a function on string keys), and so on, so    *)
(* that a missing key, a null and an empty container stay distinct, as     *)
(* they are for dict.get and for truthiness.                               *)
(*                                                                         *)
(* One request is handled at a time (neither file starts a thread); the    *)
(* cron loop is one step per username.                                     *)
(***************************************************************************)
EXTENDS Integers, Sequences, FiniteSets, TLC

\* ---------------------------------------------------------------- bounds
NumUsers == 2
MaxRequests == 2
MaxFetches == 3

AllNames == <<"sinha_i_prefer", "alice", "bob", "carol">>
Users == {AllNames[i] : i \in 1..NumUsers}

\* ---------------------------------------------------------- Python values
PyNone == [t |-> "None"]
Str(s) == [t |-> "str", v |-> s]
FStr(parts) == [t |-> "fstr", v |-> parts]
Num(n) == [t |-> "int", v |-> n]
Dict(f) == [t |-> "dict", v |-> f]
List(s) == [t |-> "list", v |-> s]
NoKeys == [k \in {} |-> PyNone]
EmptyDict == Dict(NoKeys)
Raised(e) == [t |-> "raise", v |-> e]
SERVER_TIMESTAMP == [t |-> "sentinel", v |-> "SERVER_TIMESTAMP"]
Timestamp(n) == [t |-> "timestamp", v |-> n]

IsDict(x) == x.t = "dict"
IsRaised(x) == x.t = "raise"
Has(d, k) == k \in DOMAIN d.v
Get(d, k, default) == IF k \in DOMAIN d.v THEN d.v[k] ELSE default
Put(d, k, x) == Dict((k :> x) @@ d.v)
Del(d, k) == Dict([f \in DOMAIN d.v \ {k} |-> d.v[f]])

Truthy(x) ==
    CASE x.t = "None" -> FALSE
      [] x.t = "str"  -> x.v # ""
      [] x.t = "int"  -> x.v # 0
      [] x.t = "dict" -> DOMAIN x.v # {}
      [] x.t = "list" -> Len(x.v) > 0
      [] OTHER -> TRUE

\* datetime.datetime.fromtimestamp(int(s)).isoformat(): the calendar reading
\* of an epoch in seconds.
IsoFormat(epoch) ==
    [t |-> "isoformat", days |-> epoch.v \div 86400, secs |-> epoch.v % 86400]

\* --------------------------------------------------- upstream HTTP outcomes
\* What requests.post can do: raise a RequestException, answer with an error
\* status, or answer 200 with a JSON body.
ConnError == [kind |-> "conn_error", body |-> EmptyDict]
HttpError == [kind |-> "http_error", body |-> EmptyDict]
Json(body) == [kind |-> "json", body |-> body]

Entry(d, c) == Dict(("difficulty" :> Str(d)) @@ ("count" :> Num(c)))
Submission ==
    Dict(("title" :> Str("Two Sum")) @@ ("titleSlug" :> Str("two-sum"))
         @@ ("timestamp" :> Num(1700000000)) @@ ("lang" :> Str("python3")))

MatchedUser(u, realName, stats) ==
    Dict(("username" :> Str(u))
         @@ ("profile" :> Dict("realName" :> realName))
         @@ ("submitStatsGlobal" :> Dict("acSubmissionNum" :> List(stats))))

\* bodies of the aggregated query of index.py
BodyNoData == Dict("errors" :> List(<<Str("rate limited")>>))
BodyUnknown ==
    Dict("data" :> Dict(("matchedUser" :> PyNone)
                        @@ ("recentAcSubmissionList" :> List(<<>>))))
BodyBadProfile(u) ==
    Dict("data" :> Dict(("matchedUser" :>
                            Dict(("username" :> Str(u)) @@ ("profile" :> PyNone)))
                        @@ ("recentAcSubmissionList" :> List(<<>>))))
BodyUser(u, realName, stats, recent) ==
    Dict("data" :> Dict(("matchedUser" :> MatchedUser(u, realName, stats))
                        @@ ("recentAcSubmissionList" :> List(recent))))

StatsFull == <<Entry("Easy", 10), Entry("Medium", 5)>>
StatsDup == <<Entry("Easy", 1), Entry("Easy", 2)>>

\* what the upstream may answer to the aggregated query for username u
Outcomes(u) ==
    { HttpError, Json(BodyNoData), Json(BodyUnknown), Json(BodyBadProfile(u)),
      Json(BodyUser(u, Str("Real Name"), StatsFull, <<Submission>>)),
      Json(BodyUser(u, PyNone, StatsDup, <<>>)) }

\* ------------------------------------------------------ index.py: fetching
run_query(http) ==
    IF http.kind = "json" THEN http.body ELSE EmptyDict

RECURSIVE SolvedOf(_)
SolvedOf(stats) ==
    IF Len(stats) = 0 THEN NoKeys
    ELSE LET e == stats[Len(stats)]
         IN  (e.v["difficulty"].v :> e.v["count"]) @@ SolvedOf(SubSeq(stats, 1, Len(stats) - 1))

LastSubmissionOf(sub) ==
    Dict(("title" :> sub.v["title"]) @@ ("lang" :> sub.v["lang"])
         @@ ("url" :> FStr(<<"https://leetcode.com/problems/", sub.v["titleSlug"].v, "/">>))
         @@ ("timestamp" :> IsoFormat(sub.v["timestamp"])))

Summary(name, username, solved, last) ==
    Dict(("name" :> name) @@ ("username" :> Str(username))
         @@ ("problems_solved" :> Dict(solved)) @@ ("last_submission" :> last))

ErrorResult(msg) == Dict("error" :> msg)
FetchFailed == ErrorResult(Str("Failed to fetch data from LeetCode API."))
NotFound(username) == ErrorResult(FStr(<<"User '", username, "' not found on LeetCode.">>))

get_leetcode_summary(username, http) ==
    LET data == run_query(http) IN
    IF ~Truthy(Get(data, "data", PyNone)) THEN FetchFailed
    ELSE
    LET payload == data.v["data"]
        matched_user == Get(payload, "matchedUser", PyNone)
    IN
    IF ~Truthy(matched_user) THEN NotFound(username)
    ELSE
    LET profile == Get(matched_user, "profile", EmptyDict) IN
    IF ~IsDict(profile) THEN Raised("AttributeError")
    ELSE
    LET realName == Get(profile, "realName", PyNone)
        name == IF Truthy(realName) THEN realName ELSE Get(matched_user, "username", PyNone)
        stats == Get(Get(matched_user, "submitStatsGlobal", EmptyDict), "acSubmissionNum", List(<<>>))
        solved == SolvedOf(stats.v)
        last_submission_data == Get(payload, "recentAcSubmissionList", List(<<>>))
        last_submission == IF Truthy(last_submission_data)
                           THEN LastSubmissionOf(last_submission_data.v[1])
                           ELSE PyNone
    IN Summary(name, username, solved, last_submission)


\* ------------------------------------------------------------- state
VARIABLES
    FIREBASE_INITIALIZED,  \* index.py: module initialisation succeeded
    store,                 \* collection "leetcodeUsers": document id -> document
    clock,                 \* the store's commit time
    nreq,                  \* requests received so far
    nfetch,                \* summary fetches those requests may make
    pc,                    \* "idle", or "cron" inside the cron loop
    request,               \* the request being handled (or handled last)
    response,              \* the response written last
    usernames, idx, updated_count, failed_users,   \* locals of the cron branch
    fetched,               \* history: upstream outcomes of the last summary fetch
    leetcode_data,         \* history: what that fetch returned (or raised)
    attempted,             \* history: the summary fetches of this request, in
                           \*   order: [uname, status] with status "updated",
                           \*   "error" (an error result) or "exception"
    wrote,                 \* history: document ids this request has written
    store0,                \* history: the store when this request arrived
    prev                   \* history: the request before this one

vars == <<FIREBASE_INITIALIZED, store, clock, nreq, nfetch, pc, request, response,
          usernames, idx, updated_count, failed_users,
          fetched, leetcode_data, attempted, wrote, store0, prev>>

cronLocals == <<usernames, idx, updated_count, failed_users>>

\* ------------------------------------------------------- the document store
\* A document left by an earlier deployment: the summary fields and one more.
LegacyDoc(u) ==
    Dict(("name" :> Str("Old Name")) @@ ("username" :> Str(u))
         @@ ("problems_solved" :> Dict(("Easy" :> Num(3)) @@ ("Hard" :> Num(1))))
         @@ ("last_submission" :> PyNone)
         @@ ("last_updated" :> Timestamp(0))
         @@ ("rank" :> Num(7)))

InitialStores ==
    { [u \in K |-> LegacyDoc(u)] : K \in SUBSET Users }

\* merge of a written map into a stored one: written leaves win, stored
\* fields the write does not name stay (Firestore's set(..., merge=True)).
RECURSIVE MergeInto(_, _)
MergeInto(new, old) ==
    Dict([f \in DOMAIN new.v \cup DOMAIN old.v |->
            IF f \notin DOMAIN new.v THEN old.v[f]
            ELSE IF f \in DOMAIN old.v /\ IsDict(new.v[f]) /\ IsDict(old.v[f])
                    /\ DOMAIN new.v[f].v # {}
                 THEN MergeInto(new.v[f], old.v[f])
                 ELSE new.v[f]])

\* the sentinel firestore.SERVER_TIMESTAMP becomes the commit time
Resolve(data, now) ==
    Dict([f \in DOMAIN data.v |->
            IF data.v[f].t = "sentinel" THEN Timestamp(now) ELSE data.v[f]])

\* mutant: every write goes to one hard-coded document id
document_Default(name) == AllNames[1]

\* db.collection("leetcodeUsers").document(name)
document(name) == name

\* mutant: set() that ignores merge and always replaces the document
DocumentSet_Overwrite(st, key, data, merge, now) ==
    (key :> Resolve(data, now)) @@ st

\* DocumentReference.set(data, merge): the collection after the commit at `now`
DocumentSet(st, key, data, merge, now) ==
    LET doc == Resolve(data, now) IN
    IF merge /\ key \in DOMAIN st
    THEN (key :> MergeInto(doc, st[key])) @@ st
    ELSE (key :> doc) @@ st

\* db.collection("leetcodeUsers").stream() carries no order_by, so Firestore
\* yields the documents by ascending id; IdOrder lists the ids that way
IdOrder == <<"alice", "bob", "carol", "sinha_i_prefer">>

RECURSIVE stream(_)
stream(keys) ==
    IF keys = {} THEN <<>>
    ELSE LET i == CHOOSE i \in 1..Len(IdOrder) :
                     /\ IdOrder[i] \in keys
                     /\ \A j \in 1..(i - 1) : IdOrder[j] \notin keys
         IN <<IdOrder[i]>> \o stream(keys \ {IdOrder[i]})

\* ------------------------------------------------------- index.py: do_GET
Envelope(status, rest) == Dict(("status" :> Str(status)) @@ rest)

InitFailedResponse ==
    Envelope("error", ("message" :> Str("Firebase initialization failed."))
                      @@ ("details" :> Str("FIREBASE_ERROR")))
NoParameterResponse ==
    Envelope("error", "message" :>
        Str("Please provide a 'username' query parameter or use '?source=cron'."))
InternalErrorResponse(e) ==
    Envelope("error", ("message" :> Str("An internal error occurred."))
                      @@ ("details" :> Str(e)))
CronErrorResponse(e) ==
    Envelope("error", ("job" :> Str("cron_update_all")) @@ ("details" :> Str(e)))
CronReport(names, updated, failed) ==
    Envelope("success",
             ("job" :> Str("cron_update_all"))
             @@ ("total_users_found" :> Num(Len(names)))
             @@ ("updated_successfully" :> Num(updated))
             @@ ("failed_to_update" :> Num(Len(failed)))
             @@ ("failed_users" :> List(failed)))

\* mutant: the error check that never fires
IsError_Never(summary) == FALSE

\* "error" in leetcode_data
IsError(summary) == Has(summary, "error")

Attempt(uname, status) == [uname |-> uname, status |-> status]

NoFetch ==
    /\ fetched' = <<>>
    /\ leetcode_data' = PyNone
    /\ attempted' = <<>>
    /\ wrote' = {}

\* a request arrives that may make `fetches` summary fetches: the history of
\* the one before is shelved
Arrive(username, source, handler, fetches) ==
    /\ pc = "idle"
    /\ nreq < MaxRequests
    /\ nfetch + fetches <= MaxFetches
    /\ nreq' = nreq + 1
    /\ nfetch' = nfetch + fetches
    /\ request' = [handler |-> handler, username |-> username, source |-> source]
    /\ prev' = [request |-> request, fetched |-> fetched, response |-> response]
    /\ store0' = store

\* the single-user branch, whole: fetch, write, strip the timestamp, respond
SingleUser(username, http, write_ok) ==
    LET summary == get_leetcode_summary(username.v, http)
        stamped == Put(summary, "last_updated", SERVER_TIMESTAMP)
        returned == IF Has(stamped, "last_updated") THEN Del(stamped, "last_updated")
                    ELSE stamped
    IN
    /\ fetched' = <<http>>
    /\ leetcode_data' = summary
    /\ IF IsRaised(summary)
       THEN /\ response' = InternalErrorResponse(summary.v)
            /\ UNCHANGED <<store, clock>>
            /\ wrote' = {}
            /\ attempted' = <<Attempt(username.v, "exception")>>
       ELSE IF IsError(summary)
       THEN /\ response' = Envelope("error", "message" :> summary.v["error"])
            /\ UNCHANGED <<store, clock>>
            /\ wrote' = {}
            /\ attempted' = <<Attempt(username.v, "error")>>
       ELSE IF ~write_ok
       THEN /\ response' = InternalErrorResponse("store")
            /\ UNCHANGED <<store, clock>>
            /\ wrote' = {}
            /\ attempted' = <<Attempt(username.v, "exception")>>
       ELSE /\ clock' = clock + 1
            /\ attempted' = <<Attempt(username.v, "updated")>>
            /\ store' = DocumentSet(store, document(username.v), stamped, FALSE, clock + 1)
            /\ wrote' = {document(username.v)}
            /\ response' =
                 Envelope("success",
                    ("message" :> FStr(<<"Successfully fetched and stored data for ",
                                         username.v, ".">>))
                    @@ ("data" :> returned))

\* the cron branch up to the loop: enumerate the stored ids
CronEnumerate(stream_ok) ==
    /\ NoFetch
    /\ UNCHANGED <<store, clock>>
    /\ IF stream_ok
       THEN /\ usernames' = stream(DOMAIN store)
            /\ idx' = 1
            /\ updated_count' = 0
            /\ failed_users' = <<>>
            /\ pc' = "cron"
            /\ UNCHANGED response
       ELSE /\ response' = CronErrorResponse("stream")
            /\ UNCHANGED <<pc, usernames, idx, updated_count, failed_users>>

\* the summary fetches the request will make
Fetches(username, source) ==
    IF ~FIREBASE_INITIALIZED THEN 0
    ELSE IF source.t = "str" /\ source.v = "cron" THEN Cardinality(DOMAIN store)
    ELSE IF Truthy(username) THEN 1
    ELSE 0

do_GET(username, source, http, ok) ==
    /\ Arrive(username, source, "index", Fetches(username, source))
    /\ UNCHANGED FIREBASE_INITIALIZED
    /\ IF ~FIREBASE_INITIALIZED
       THEN /\ response' = InitFailedResponse
            /\ NoFetch
            /\ UNCHANGED <<store, clock, pc, cronLocals>>
       ELSE IF source.t = "str" /\ source.v = "cron"
       THEN CronEnumerate(ok)
       ELSE IF Truthy(username)
       THEN /\ SingleUser(username, http, ok)
            /\ UNCHANGED <<pc, cronLocals>>
       ELSE /\ response' = NoParameterResponse
            /\ NoFetch
            /\ UNCHANGED <<store, clock, pc, cronLocals>>

\* mutant: the loop body that writes whatever the fetch returned and looks
\* for the error afterwards
CronIteration_WriteFirst(st, now, uname, http, write_ok) ==
    LET summary == get_leetcode_summary(uname, http)
        stamped == Put(summary, "last_updated", SERVER_TIMESTAMP)
    IN
    IF IsRaised(summary) \/ ~write_ok
    THEN [status |-> "exception", store |-> st, clock |-> now, written |-> {}]
    ELSE [status |-> IF IsError(summary) THEN "error" ELSE "updated",
          store |-> DocumentSet(st, document(uname), stamped, TRUE, now + 1),
          clock |-> now + 1, written |-> {document(uname)}]

\* one pass of the loop body for uname: fetch, then write if it is no error
CronIteration(st, now, uname, http, write_ok) ==
    LET summary == get_leetcode_summary(uname, http)
        stamped == Put(summary, "last_updated", SERVER_TIMESTAMP)
    IN
    IF IsRaised(summary)
    THEN [status |-> "exception", store |-> st, clock |-> now, written |-> {}]
    ELSE IF ~IsError(summary)
    THEN IF write_ok
         THEN [status |-> "updated",
               store |-> DocumentSet(st, document(uname), stamped, TRUE, now + 1),
               clock |-> now + 1, written |-> {document(uname)}]
         ELSE [status |-> "exception", store |-> st, clock |-> now, written |-> {}]
    ELSE [status |-> "error", store |-> st, clock |-> now, written |-> {}]

\* mutant: an exception of the loop body is swallowed without being recorded
Tally_Swallow(count, failed, uname, status) ==
    IF status = "updated"
    THEN [updated_count |-> count + 1, failed_users |-> failed]
    ELSE IF status = "error"
    THEN [updated_count |-> count, failed_users |-> Append(failed, uname)]
    ELSE [updated_count |-> count, failed_users |-> failed]

\* the loop's bookkeeping: updated_count += 1, or failed_users.append(uname)
Tally(count, failed, uname, status) ==
    IF status = "updated"
    THEN [updated_count |-> count + 1, failed_users |-> failed]
    ELSE [updated_count |-> count, failed_users |-> Append(failed, uname)]

\* mutant: no inner try, so a raise in the loop body ends the batch
Propagates_Uncaught(status) == status = "exception"

\* whether an exception of the loop body reaches the outer try: the inner
\* "except Exception" catches every one
Propagates(status) == FALSE

CronStep ==
    /\ pc = "cron"
    /\ idx <= Len(usernames)
    /\ \E http \in Outcomes(usernames[idx]), write_ok \in BOOLEAN :
         LET uname == usernames[idx]
             r == CronIteration(store, clock, uname, http, write_ok)
             t == Tally(updated_count, failed_users, uname, r.status)
         IN
         /\ fetched' = <<http>>
         /\ leetcode_data' = get_leetcode_summary(uname, http)
         /\ attempted' = Append(attempted, Attempt(uname, r.status))
         /\ store' = r.store
         /\ clock' = r.clock
         /\ wrote' = wrote \cup r.written
         /\ IF Propagates(r.status)
            THEN /\ response' = CronErrorResponse("loop")
                 /\ pc' = "idle"
                 /\ UNCHANGED <<usernames, idx, updated_count, failed_users>>
            ELSE /\ updated_count' = t.updated_count
                 /\ failed_users' = t.failed_users
                 /\ idx' = idx + 1
                 /\ UNCHANGED <<pc, response, usernames>>
    /\ UNCHANGED <<FIREBASE_INITIALIZED, nreq, nfetch, request, store0, prev>>

CronFinish ==
    /\ pc = "cron"
    /\ idx > Len(usernames)
    /\ response' = CronReport(usernames, updated_count, failed_users)
    /\ pc' = "idle"
    /\ UNCHANGED <<FIREBASE_INITIALIZED, store, clock, nreq, nfetch, request, cronLocals,
                   fetched, leetcode_data, attempted, wrote, store0, prev>>

\* ------------------------------------------------------------ the system
NoRequest == [handler |-> "none", username |-> PyNone, source |-> PyNone]

Init ==
    /\ FIREBASE_INITIALIZED \in BOOLEAN
    /\ store \in InitialStores
    /\ store0 = store
    /\ clock = 0
    /\ nreq = 0
    /\ nfetch = 0
    /\ pc = "idle"
    /\ request = NoRequest
    /\ response = PyNone
    /\ usernames = <<>>
    /\ idx = 1
    /\ updated_count = 0
    /\ failed_users = <<>>
    /\ fetched = <<>>
    /\ leetcode_data = PyNone
    /\ attempted = <<>>
    /\ wrote = {}
    /\ prev = [request |-> NoRequest, fetched |-> <<>>, response |-> PyNone]

UsernameParams == {PyNone} \cup {Str(u) : u \in Users}
SourceParams == {PyNone, Str("cron")}
\* the username values a cron request is sent with: none, or one name (which
\* some of the initial stores hold and some do not)
CronUsernameParams == {PyNone, Str(AllNames[1])}

Request ==
    \E source \in SourceParams, ok \in BOOLEAN :
      \E username \in (IF source = PyNone THEN UsernameParams
                       ELSE CronUsernameParams) :
        \E http \in (IF Truthy(username) THEN Outcomes(username.v) ELSE {HttpError}) :
          do_GET(username, source, http, ok)

Next == Request \/ CronStep \/ CronFinish

Spec == Init /\ [][Next]_vars

FairSpec == Spec /\ WF_vars(CronStep) /\ WF_vars(CronFinish)

\* ------------------------------------------------------- try.py: fetching
\* run_query of try.py: no try/except around requests.post, and any status
\* other than 200 gives {}
try_run_query(http) ==
    CASE http.kind = "conn_error" -> Raised("RequestException")
      [] http.kind = "http_error" -> EmptyDict
      [] OTHER -> http.body

get_name(http) ==
    LET data == try_run_query(http) IN
    IF IsRaised(data) THEN data
    ELSE
    LET payload == Get(data, "data", EmptyDict) IN
    IF ~IsDict(payload) THEN Raised("AttributeError")
    ELSE
    LET matched_user == Get(payload, "matchedUser", EmptyDict) IN
    IF ~Truthy(matched_user) THEN PyNone
    ELSE IF ~Has(matched_user, "profile") THEN Raised("KeyError")
    ELSE IF ~IsDict(matched_user.v["profile"]) THEN Raised("TypeError")
    ELSE IF ~Has(matched_user.v["profile"], "realName") THEN Raised("KeyError")
    ELSE IF Truthy(matched_user.v["profile"].v["realName"])
    THEN matched_user.v["profile"].v["realName"]
    ELSE IF ~Has(matched_user, "username") THEN Raised("KeyError")
    ELSE matched_user.v["username"]

get_problems_solved(http) ==
    LET data == try_run_query(http) IN
    IF IsRaised(data) THEN data
    ELSE
    LET payload == Get(data, "data", EmptyDict) IN
    IF ~IsDict(payload) THEN Raised("AttributeError")
    ELSE
    LET matched_user == Get(payload, "matchedUser", EmptyDict) IN
    IF ~IsDict(matched_user) THEN Raised("AttributeError")
    ELSE
    LET global == Get(matched_user, "submitStatsGlobal", EmptyDict) IN
    IF ~IsDict(global) THEN Raised("AttributeError")
    ELSE Dict(SolvedOf(Get(global, "acSubmissionNum", List(<<>>)).v))

get_last_submission(http) ==
    LET data == try_run_query(http) IN
    IF IsRaised(data) THEN data
    ELSE
    LET payload == Get(data, "data", EmptyDict) IN
    IF ~IsDict(payload) THEN Raised("AttributeError")
    ELSE
    LET subs == Get(payload, "recentAcSubmissionList", List(<<>>)) IN
    IF ~Truthy(subs) THEN PyNone ELSE LastSubmissionOf(subs.v[1])

\* get_leetcode_summary of try.py: three requests, one after the other
try_get_leetcode_summary(username, h1, h2, h3) ==
    LET name == get_name(h1)
        solved == get_problems_solved(h2)
        last == get_last_submission(h3)
    IN
    IF IsRaised(name) THEN name
    ELSE IF IsRaised(solved) THEN solved
    ELSE IF IsRaised(last) THEN last
    ELSE Summary(name, username, solved.v,
                 IF Truthy(last) THEN last ELSE Str("No recent submissions found"))

\* the requests that were sent: a raise ends the fetch
Performed(h1, h2, h3) ==
    IF IsRaised(get_name(h1)) THEN <<h1>>
    ELSE IF IsRaised(get_problems_solved(h2)) THEN <<h1, h2>>
    ELSE <<h1, h2, h3>>

\* bodies of the three queries of try.py
BodyName(u, realName) ==
    Dict("data" :> Dict("matchedUser" :>
        Dict(("username" :> Str(u)) @@ ("profile" :> Dict("realName" :> realName)))))
BodyNoUser == Dict("data" :> Dict("matchedUser" :> PyNone))
BodyStats(stats) ==
    Dict("data" :> Dict("matchedUser" :>
        Dict("submitStatsGlobal" :> Dict("acSubmissionNum" :> List(stats)))))
BodyRecent(recent) == Dict("data" :> Dict("recentAcSubmissionList" :> List(recent)))

NameOutcomes(u) ==
    { HttpError, Json(BodyNoUser), Json(BodyName(u, Str("Real Name"))),
      Json(BodyName(u, PyNone)) }
StatsOutcomes == { HttpError, Json(BodyNoUser), Json(BodyStats(StatsFull)) }
RecentOutcomes ==
    { ConnError, HttpError, Json(BodyRecent(<<>>)), Json(BodyRecent(<<Submission>>)) }

\* ------------------------------------------------------- try.py: handler
DEFAULT_USERNAME == "sinha_i_prefer"

TryResponse(code, body) == Dict(("code" :> Num(code)) @@ body)

handler(param, h1, h2, h3, write_ok) ==
    LET username_to_scrape == IF param.t = "None" THEN Str(DEFAULT_USERNAME) ELSE param
        u == username_to_scrape.v
        summary == try_get_leetcode_summary(u, h1, h2, h3)
        stamped == Put(summary, "last_updated", SERVER_TIMESTAMP)
    IN
    /\ Arrive(param, PyNone, "try", IF Truthy(username_to_scrape) THEN 1 ELSE 0)
    /\ UNCHANGED <<FIREBASE_INITIALIZED, pc, cronLocals>>
    /\ IF ~Truthy(username_to_scrape)
       THEN /\ response' = TryResponse(400, "error" :> Str("Missing 'username' query parameter."))
            /\ NoFetch
            /\ UNCHANGED <<store, clock>>
       ELSE
       /\ fetched' = Performed(h1, h2, h3)
       /\ leetcode_data' = summary
       /\ IF IsRaised(summary)
          THEN /\ response' = TryResponse(500, "error" :> Str(summary.v))
               /\ attempted' = <<Attempt(u, "exception")>>
               /\ wrote' = {}
               /\ UNCHANGED <<store, clock>>
          ELSE IF ~Truthy(summary.v["name"])
          THEN /\ response' = TryResponse(404, "error" :>
                     FStr(<<"LeetCode user '", u, "' not found or data unavailable.">>))
               /\ attempted' = <<Attempt(u, "error")>>
               /\ wrote' = {}
               /\ UNCHANGED <<store, clock>>
          ELSE IF ~write_ok
          THEN /\ response' = TryResponse(500, "error" :> Str("store"))
               /\ attempted' = <<Attempt(u, "exception")>>
               /\ wrote' = {}
               /\ UNCHANGED <<store, clock>>
          ELSE /\ clock' = clock + 1
               /\ store' = DocumentSet(store, document(u), stamped, FALSE, clock + 1)
               /\ wrote' = {document(u)}
               /\ attempted' = <<Attempt(u, "updated")>>
               /\ response' =
                    TryResponse(200,
                       ("message" :> FStr(<<"LeetCode data for '", u,
                                            "' scraped and saved to Firestore!">>))
                       @@ ("data" :> stamped)
                       @@ ("firestoreDocPath" :> FStr(<<"leetcodeUsers/", u>>)))

TryParams == {PyNone, Str("")} \cup {Str(u) : u \in Users}

TryRequest ==
    \E param \in TryParams, write_ok \in BOOLEAN :
      \E h1 \in NameOutcomes(IF Truthy(param) THEN param.v ELSE DEFAULT_USERNAME),
         h2 \in StatsOutcomes, h3 \in RecentOutcomes :
        handler(param, h1, h2, h3, write_ok)

NextTry == TryRequest

SpecTry == Init /\ [][NextTry]_vars

\* ================================================================ claims
Names(seq) == [i \in DOMAIN seq |-> seq[i].uname]
Range(seq) == {seq[i] : i \in DOMAIN seq}
Status(r) == r.v["status"].v
SummaryFields == {"name", "username", "problems_solved", "last_submission"}

IsCron(req) ==
    /\ req.handler = "index" /\ FIREBASE_INITIALIZED
    /\ req.source.t = "str" /\ req.source.v = "cron"
IsSingle(req) ==
    /\ req.handler = "index" /\ FIREBASE_INITIALIZED
    /\ ~(req.source.t = "str" /\ req.source.v = "cron")
    /\ Truthy(req.username)
\* the cron request has returned its report
CronCompleted == IsCron(request) /\ pc = "idle" /\ Status(response) = "success"
\* the single-user request has returned success
SingleOK == IsSingle(request) /\ Status(response) = "success"
PrevSingleOK == IsSingle(prev.request) /\ Status(prev.response) = "success"
\* the fetch gave a summary: it neither raised nor returned an error result
FetchedSummary == IsDict(leetcode_data) /\ ~Has(leetcode_data, "error")
Failures == {i \in DOMAIN attempted : attempted[i].status # "updated"}

\* C1: when a cron batch over the N stored usernames completes, with K of them
\* failed (an error result, or a raise in the fetch or the write), its report
\* has total_users_found = N, updated_successfully = N - K and K failed_users,
\* so updated_successfully + len(failed_users) = total_users_found.
C1_BatchAccounting ==
    CronCompleted =>
        LET N == Cardinality(DOMAIN store0)
            K == Cardinality(Failures)
        IN  /\ Len(attempted) = N
            /\ response.v["total_users_found"].v = N
            /\ response.v["updated_successfully"].v = N - K
            /\ Len(response.v["failed_users"].v) = K
            /\ response.v["failed_to_update"].v = K
            /\ response.v["updated_successfully"].v + Len(response.v["failed_users"].v)
                 = response.v["total_users_found"].v

C1_Witness ==
    /\ CronCompleted
    /\ Len(attempted) >= 2
    /\ \E i, j \in DOMAIN attempted :
          attempted[i].status = "exception" /\ attempted[j].status = "updated"

\* C2: once the enumeration has succeeded, the loop attempts the enumerated
\* usernames one by one, each exactly once and whatever the earlier ones did,
\* and the request ends with the success report.
C2_BatchNeverAborts ==
    /\ [](pc = "cron" => Names(attempted) = SubSeq(usernames, 1, idx - 1))
    /\ \A n \in 1..MaxRequests :
          (pc = "cron" /\ nreq = n)
             ~> (nreq = n /\ CronCompleted /\ Names(attempted) = usernames)

C2_Witness ==
    /\ CronCompleted
    /\ Len(attempted) >= 2
    /\ attempted[1].status = "exception"
    /\ Names(attempted) = usernames
    /\ \E i \in 2..Len(attempted) : attempted[i].status = "error"

\* C3: after a cron batch, the document of every username in failed_users is
\* what it was when the batch started, and the documents written are exactly
\* those of the usernames counted as updated.
C3_FailedUntouched ==
    CronCompleted =>
        /\ \A u \in Range(response.v["failed_users"].v) :
              /\ u \in DOMAIN store0 /\ u \in DOMAIN store
              /\ store[u] = store0[u]
              /\ u \notin wrote
        /\ wrote = {attempted[i].uname : i \in DOMAIN attempted \ Failures}
        /\ Cardinality(wrote) = response.v["updated_successfully"].v
        /\ \A u \in DOMAIN store0 \ wrote : u \in DOMAIN store /\ store[u] = store0[u]

C3_Witness ==
    /\ CronCompleted
    /\ \E u \in Range(response.v["failed_users"].v) : store[u] = LegacyDoc(u)
    /\ \E i \in DOMAIN attempted : attempted[i].status = "error"
    /\ wrote # {}

\* C7: a successful single-user refresh changes no key but its own, and when
\* it follows a successful refresh of the same username that got the same
\* upstream answer, the document it leaves equals the one it found except
\* for last_updated.
C7_Idempotent ==
    SingleOK =>
        LET u == request.username.v IN
        /\ \A k \in (DOMAIN store \cup DOMAIN store0) \ {u} :
              k \in DOMAIN store /\ k \in DOMAIN store0 /\ store[k] = store0[k]
        /\ (PrevSingleOK /\ prev.request.username.v = u /\ prev.fetched = fetched)
              => /\ u \in DOMAIN store0 /\ u \in DOMAIN store
                 /\ Has(store[u], "last_updated") /\ Has(store0[u], "last_updated")
                 /\ Del(store[u], "last_updated") = Del(store0[u], "last_updated")

C7_Witness ==
    /\ SingleOK /\ PrevSingleOK
    /\ prev.request.username = request.username
    /\ prev.fetched = fetched
    /\ request.username.v \in DOMAIN store0
    /\ store[request.username.v].v["last_updated"].v
         > store0[request.username.v].v["last_updated"].v
    /\ DOMAIN store0 \ {request.username.v} # {}

\* C9: the single-user write replaces the document (the summary fields and
\* last_updated, nothing else); the cron write merges (a stored field that
\* the summary does not name keeps its value).
C9_OverwriteVersusMerge ==
    /\ SingleOK =>
          LET u == request.username.v IN
          /\ u \in DOMAIN store
          /\ DOMAIN store[u].v = SummaryFields \cup {"last_updated"}
          /\ \A f \in SummaryFields : store[u].v[f] = leetcode_data.v[f]
    /\ IsCron(request) =>
          \A u \in wrote :
             /\ u \in DOMAIN store0 /\ u \in DOMAIN store
             /\ \A f \in DOMAIN store0[u].v \ (SummaryFields \cup {"last_updated"}) :
                   Has(store[u], f) /\ store[u].v[f] = store0[u].v[f]

C9_Witness ==
    /\ SingleOK
    /\ request.username.v \in DOMAIN store0
    /\ Has(store0[request.username.v], "rank")
    /\ ~Has(store[request.username.v], "rank")
    /\ IsCron(prev.request) /\ Status(prev.response) = "success"
    /\ prev.response.v["updated_successfully"].v >= 1
    /\ \E k \in DOMAIN store \ {request.username.v} :
          Has(store[k], "rank") /\ store[k].v["last_updated"].v > 0

HasPayload(h) == h.kind = "json" /\ Truthy(Get(h.body, "data", PyNone))
\* ... and, where the query asks for matchedUser, the user is in it
UserKnown(h) ==
    HasPayload(h) /\ (Has(h.body.v["data"], "matchedUser")
                        => Truthy(h.body.v["data"].v["matchedUser"]))
UserFound(h) == HasPayload(h) /\ Truthy(Get(h.body.v["data"], "matchedUser", PyNone))
RecentEmpty(h) ==
    /\ HasPayload(h) /\ Has(h.body.v["data"], "recentAcSubmissionList")
    /\ ~Truthy(h.body.v["data"].v["recentAcSubmissionList"])
LastAttempt == attempted[Len(attempted)]
\* the matchedUser object of the first answer
h0(answers) == answers[1].body.v["data"].v["matchedUser"]
\* a single-user request (of either file) that wrote its document
SingleWritten ==
    /\ request.handler \in {"index", "try"} /\ ~IsCron(request)
    /\ Len(attempted) = 1 /\ attempted[1].status = "updated"

\* C4: a document is written only after a fetch in which every upstream
\* request answered with data and found the user.
C4_WriteOnlyAfterFullFetch ==
    (Len(attempted) > 0 /\ LastAttempt.status = "updated")
        => \A i \in DOMAIN fetched : UserKnown(fetched[i])

\* C5: a fetch whose upstream payload is empty or missing gives the
\* upstream-failure error result; one whose payload is present but has no
\* matchedUser gives the not-found error result, never a summary.
C5_UnknownUserIsNotFound ==
    Len(fetched) > 0 =>
        /\ ~HasPayload(fetched[1]) => leetcode_data = FetchFailed
        /\ (HasPayload(fetched[1]) /\ ~UserFound(fetched[1]))
              => leetcode_data = NotFound(LastAttempt.uname)

\* C6: after a successful single-user refresh the stored document has
\* last_updated, the summary in the response has not, and they agree on every
\* other field.
C6_TimestampStripped ==
    SingleWritten =>
        LET u == attempted[1].uname IN
        /\ u \in DOMAIN store /\ Has(store[u], "last_updated")
        /\ Has(response, "data")
        /\ ~Has(response.v["data"], "last_updated")
        /\ response.v["data"] = Del(store[u], "last_updated")

\* C8: when the user is found and the recent-submissions list is empty, the
\* fetch gives a summary whose last_submission is null and whose username and
\* problems_solved are populated, and that is what gets stored.
C8_NoSubmissionIsNull ==
    (Len(fetched) > 0 /\ \A i \in DOMAIN fetched : UserKnown(fetched[i])
       /\ UserFound(fetched[1]) /\ RecentEmpty(fetched[Len(fetched)])
       /\ IsDict(Get(h0(fetched), "profile", EmptyDict)))
        => /\ FetchedSummary
           /\ leetcode_data.v["last_submission"] = PyNone
           /\ leetcode_data.v["username"] = Str(LastAttempt.uname)
           /\ IsDict(leetcode_data.v["problems_solved"])
           /\ LastAttempt.status = "updated"
                 => store[LastAttempt.uname].v["last_submission"] = PyNone
====
